---- MODULE Spec2Model ----
(***************************************************************************)
(* Model of zclist.py: ZeroCopySlice (a window [low, high) onto a shared   *)
(* Python list, re-adjusted against the list's length at the top of every  *)
(* public method) and ZeroCopyList (a list whose slicing returns a         *)
(* ZeroCopySlice).                                                         *)
(*                                                                         *)
(* One backing list is shared by the slice objects held in the variables   *)
(* named by Views.  Every method is an operator that returns the outcome   *)
(* of the call (bounds after the call, list after the call, exception      *)
(* raised, value returned, list subscripts evaluated); every action        *)
(* applies one call and records it in `last`.                              *)
(***************************************************************************)
EXTENDS Integers, Sequences, FiniteSets, TLC

\* ---- bounds of the model ------------------------------------------------
MaxLen == 2          \* longest backing list explored
MaxIdx == 2          \* index and bound arguments are drawn from -MaxIdx..MaxIdx

\* the code only compares elements with ==: two distinct elements
Vals  == {0, 1}
Idx   == (0 - MaxIdx)..MaxIdx
\* the variables that hold a ZeroCopySlice
Views == {"s1", "s2"}
\* the variable used where one slice is enough
One   == {"s1"}
\* the non-negative arguments given to two slices of one list
PairIdx == 0..MaxIdx

\* Python's None, and a present value, for optional arguments and results
None    == <<>>
Some(x) == <<x>>
OptIdx  == {None} \cup {Some(n) : n \in Idx}

Min(a, b) == IF a <= b THEN a ELSE b

VARIABLES
  list,     \* the backing list (a ZeroCopyList, or the list handed to ZeroCopySlice)
  slices,   \* slices[v]: the ZeroCopySlice bound to variable v: [alive, low, high, own]
  last      \* the last call: [op, v, args, before, self, err, ret, acc]

vars == <<list, slices, last>>

\* ---- the built-in list ----------------------------------------------------
\* l[idx] of a Python list is defined for -len(l) <= idx < len(l) ...
ListInRange(l, idx) == (0 - Len(l)) <= idx /\ idx < Len(l)

\* ... a negative subscript counts from the end; Pos is the 0-based place
ListPos(l, idx) == IF idx < 0 THEN Len(l) + idx ELSE idx

ListGet(l, idx) == l[ListPos(l, idx) + 1]

ListSet(l, idx, x) == [l EXCEPT ![ListPos(l, idx) + 1] = x]

\* ---- outcomes -------------------------------------------------------------
\* `own` is None when self.__list is the list handed to the constructor (the
\* variable `list`), and Some(l) when it is a list object l of the slice's own
NoSlice == [alive |-> FALSE, low |-> 0, high |-> 0, own |-> None]

Slice(low, high) == [alive |-> TRUE, low |-> low, high |-> high, own |-> None]

\* the list self.__list of slice s refers to, l being the shared list
BackingOf(s, l) == IF s.own = None THEN l ELSE s.own[1]

\* the outcome of a method call on a slice
Outcome(s, l, err, ret, acc) ==
  [slice |-> s, list |-> l, err |-> err, ret |-> ret, acc |-> acc]

\* ---- ZeroCopySlice --------------------------------------------------------
\* a re-adjustment that clips high and never empties the range
readjust_bounds_clip_only(s, l) ==
  [s EXCEPT !.high = Min(s.high, Len(l))]

\* a re-adjustment that moves high to the end of the list
readjust_bounds_track_len(s, l) ==
  IF s.low >= Len(l)
    THEN [s EXCEPT !.low = 0, !.high = 0]
    ELSE [s EXCEPT !.high = Len(l)]

readjust_bounds(s, l) ==
  IF s.low >= Len(l)
    THEN [s EXCEPT !.low = 0, !.high = 0]
    ELSE [s EXCEPT !.high = Min(s.high, Len(l))]

\* TRUE when __verify_bounds returns, FALSE when it raises IndexError
verify_bounds(s, low, high) ==
  /\ (s.low <= low /\ low < s.high)
  /\ (s.low <= high /\ high <= s.high)

\* a __verify_index that lets the subscript reach high
verify_index_inclusive(s, idx) == s.low <= idx /\ idx <= s.high

\* TRUE when __verify_index returns, FALSE when it raises IndexError
verify_index(s, idx) == s.low <= idx /\ idx < s.high

\* a constructor that refuses low = 0 on an empty list
ZeroCopySlice_strict_low(l, i, j) ==
  LET lowidx  == IF i < 0 THEN Len(l) + i ELSE i
      highidx == IF j < 0 THEN Len(l) + j ELSE j
  IN  IF lowidx >= Len(l)
        THEN Outcome(NoSlice, l, "IndexError", None, {})
      ELSE IF highidx > Len(l)
        THEN Outcome(NoSlice, l, "IndexError", None, {})
      ELSE Outcome(Slice(lowidx, highidx), l, "none", None, {})

\* ZeroCopySlice(l, i, j) for a list l and integers i, j
ZeroCopySlice(l, i, j) ==
  LET lowidx  == IF i < 0 THEN Len(l) + i ELSE i
      highidx == IF j < 0 THEN Len(l) + j ELSE j
  IN  IF lowidx >= Len(l) /\ lowidx # 0
        THEN Outcome(NoSlice, l, "IndexError", None, {})
      ELSE IF highidx > Len(l)
        THEN Outcome(NoSlice, l, "IndexError", None, {})
      ELSE Outcome(Slice(lowidx, highidx), l, "none", None, {})

\* the subscript a non-negative or negative index i resolves to
resolve(s, i) == IF i < 0 THEN s.high + i ELSE s.low + i

getitem(s0, l, i) ==
  LET s   == readjust_bounds(s0, l)
      idx == resolve(s, i)
  IN  IF ~verify_index(s, idx)
        THEN Outcome(s, l, "IndexError", None, {})
      ELSE IF ~ListInRange(l, idx)
        THEN Outcome(s, l, "IndexError", None, {idx})
      ELSE Outcome(s, l, "none", Some(ListGet(l, idx)), {idx})

\* a __setitem__ that stores at i, not at the subscript i resolves to
setitem_unshifted(s0, l, i, x) ==
  LET s   == readjust_bounds(s0, l)
      idx == resolve(s, i)
  IN  IF ~verify_index(s, idx)
        THEN Outcome(s, l, "IndexError", None, {})
      ELSE IF ~ListInRange(l, i)
        THEN Outcome(s, l, "IndexError", None, {i})
      ELSE Outcome(s, ListSet(l, i, x), "none", None, {i})

\* a __setitem__ that stores before it verifies the subscript
setitem_store_first(s0, l, i, x) ==
  LET s   == readjust_bounds(s0, l)
      idx == resolve(s, i)
  IN  IF ~ListInRange(l, idx)
        THEN Outcome(s, l, "IndexError", None, {idx})
      ELSE IF ~verify_index(s, idx)
        THEN Outcome(s, ListSet(l, idx, x), "IndexError", None, {idx})
      ELSE Outcome(s, ListSet(l, idx, x), "none", None, {idx})

setitem(s0, l, i, x) ==
  LET s   == readjust_bounds(s0, l)
      idx == resolve(s, i)
  IN  IF ~verify_index(s, idx)
        THEN Outcome(s, l, "IndexError", None, {})
      ELSE IF ~ListInRange(l, idx)
        THEN Outcome(s, l, "IndexError", None, {idx})
      ELSE Outcome(s, ListSet(l, idx, x), "none", None, {idx})

len(s0, l) ==
  LET s == readjust_bounds(s0, l)
  IN  Outcome(s, l, "none", Some(s.high - s.low), {})

\* s[i:j] returns a new ZeroCopySlice of the same list
getslice(s0, l, i, j) ==
  LET s    == readjust_bounds(s0, l)
      low  == resolve(s, i)
      high == resolve(s, j)
      new  == ZeroCopySlice(l, low, high)
  IN  IF ~verify_bounds(s, low, high)
        THEN Outcome(s, l, "IndexError", None, {})
      ELSE IF new.err # "none"
        THEN Outcome(s, l, new.err, None, {})
      ELSE Outcome(s, l, "none", Some([new.slice EXCEPT !.own = s.own]), {})

\* for i in range(i, high): if l[i] == x: return True
RECURSIVE contains_loop(_, _, _, _, _)
contains_loop(l, i, high, x, acc) ==
  IF i >= high THEN [err |-> "none", ret |-> Some(FALSE), acc |-> acc]
  ELSE IF ~ListInRange(l, i)
    THEN [err |-> "IndexError", ret |-> None, acc |-> acc \cup {i}]
  ELSE IF ListGet(l, i) = x
    THEN [err |-> "none", ret |-> Some(TRUE), acc |-> acc \cup {i}]
  ELSE contains_loop(l, i + 1, high, x, acc \cup {i})

contains(s0, l, x) ==
  LET s == readjust_bounds(s0, l)
      r == contains_loop(l, s.low, s.high, x, {})
  IN  Outcome(s, l, r.err, r.ret, r.acc)

\* for i in range(i, high): if l[i] == x: count += 1
RECURSIVE count_loop(_, _, _, _, _, _)
count_loop(l, i, high, x, n, acc) ==
  IF i >= high THEN [err |-> "none", ret |-> Some(n), acc |-> acc]
  ELSE IF ~ListInRange(l, i)
    THEN [err |-> "IndexError", ret |-> None, acc |-> acc \cup {i}]
  ELSE count_loop(l, i + 1, high, x,
                  IF ListGet(l, i) = x THEN n + 1 ELSE n, acc \cup {i})

\* a count whose scan starts one past the low bound
count_from_next(s0, l, x) ==
  LET s == readjust_bounds(s0, l)
      r == count_loop(l, s.low + 1, s.high, x, 0, {})
  IN  Outcome(s, l, r.err, r.ret, r.acc)

count(s0, l, x) ==
  LET s == readjust_bounds(s0, l)
      r == count_loop(l, s.low, s.high, x, 0, {})
  IN  Outcome(s, l, r.err, r.ret, r.acc)

\* for i in range(begin, end): if l[i] == x: return i - begin
RECURSIVE index_loop(_, _, _, _, _, _)
index_loop(l, i, end, x, begin, acc) ==
  IF i >= end THEN [err |-> "ValueError", ret |-> None, acc |-> acc]
  ELSE IF ~ListInRange(l, i)
    THEN [err |-> "IndexError", ret |-> None, acc |-> acc \cup {i}]
  ELSE IF ListGet(l, i) = x
    THEN [err |-> "none", ret |-> Some(i - begin), acc |-> acc \cup {i}]
  ELSE index_loop(l, i + 1, end, x, begin, acc \cup {i})

\* the range s.index(x, start, stop) scans, from the bounds after re-adjustment
index_begin(s, start) == IF start = None THEN s.low ELSE resolve(s, start[1])

index_end(s, stop) == IF stop = None THEN s.high ELSE resolve(s, stop[1])

\* an index() that returns the offset from the start of the slice, not from begin
index_from_low(s0, l, x, start, stop) ==
  LET s     == readjust_bounds(s0, l)
      begin == index_begin(s, start)
      end   == index_end(s, stop)
      r     == index_loop(l, begin, end, x, s.low, {})
  IN  IF ~verify_bounds(s, begin, end)
        THEN Outcome(s, l, "IndexError", None, {})
        ELSE Outcome(s, l, r.err, r.ret, r.acc)

index(s0, l, x, start, stop) ==
  LET s     == readjust_bounds(s0, l)
      begin == index_begin(s, start)
      end   == index_end(s, stop)
      r     == index_loop(l, begin, end, x, begin, {})
  IN  IF ~verify_bounds(s, begin, end)
        THEN Outcome(s, l, "IndexError", None, {})
        ELSE Outcome(s, l, r.err, r.ret, r.acc)

\* repr() of an element (a small non-negative int)
repr_int(n) == <<"0", "1", "2", "3", "4", "5", "6", "7", "8", "9">>[n + 1]

\* for i in range(i, high): s += ', %s' % repr(l[i])
RECURSIVE repr_loop(_, _, _, _, _)
repr_loop(l, i, high, str, acc) ==
  IF i >= high THEN [err |-> "none", ret |-> Some(str \o "]"), acc |-> acc]
  ELSE IF ~ListInRange(l, i)
    THEN [err |-> "IndexError", ret |-> None, acc |-> acc \cup {i}]
  ELSE repr_loop(l, i + 1, high, str \o ", " \o repr_int(ListGet(l, i)),
                 acc \cup {i})

repr(s0, l) ==
  LET s == readjust_bounds(s0, l)
      r == repr_loop(l, s.low + 1, s.high,
                     "[" \o repr_int(ListGet(l, s.low)), {s.low})
  IN  IF s.low >= s.high
        THEN Outcome(s, l, "none", Some("[]"), {})
      ELSE IF ~ListInRange(l, s.low)
        THEN Outcome(s, l, "IndexError", None, {s.low})
      ELSE Outcome(s, l, r.err, r.ret, r.acc)

str(s0, l) == repr(s0, l)

\* ---- ZeroCopyList ---------------------------------------------------------
\* ZeroCopyList(): the empty list
ZeroCopyList_init == <<>>

\* a __getslice__ that hands the constructor a copy of the list
ZeroCopyList_getslice_copy(l, i, j) ==
  LET o == ZeroCopySlice(l, i, j)
  IN  IF o.err = "none"
        THEN [o EXCEPT !.slice = [o.slice EXCEPT !.own = Some(l)]]
        ELSE o

\* z.__getslice__(i, j)
ZeroCopyList_getslice(l, i, j) == ZeroCopySlice(l, i, j)

\* ---- the state machine ----------------------------------------------------
\* the record of a call: `before` is the slice the method was called on,
\* `self` that slice after the call (for a constructor: the slice it built)
Call(op, v, args, before, o) ==
  [op |-> op, v |-> v, args |-> args, before |-> before, self |-> o.slice,
   err |-> o.err, ret |-> o.ret, acc |-> o.acc]

NoOutcome == Outcome(NoSlice, <<>>, "none", None, {})

\* the methods that start with __readjust_bounds, and those that bind a new slice
ViewOps == {"len", "getitem", "setitem", "contains", "count", "index",
            "repr", "str", "getslice"}

Init ==
  /\ list = ZeroCopyList_init
  /\ slices = [v \in Views |-> NoSlice]
  /\ last = Call("ZeroCopyList", "-", <<>>, NoSlice, NoOutcome)

\* list.append(x)
ListAppend(x) ==
  /\ Len(list) < MaxLen
  /\ list' = Append(list, x)
  /\ last' = Call("append", "-", <<x>>, NoSlice, NoOutcome)
  /\ UNCHANGED slices

\* list.pop()
ListPop ==
  /\ Len(list) > 0
  /\ list' = SubSeq(list, 1, Len(list) - 1)
  /\ last' = Call("pop", "-", <<>>, NoSlice, NoOutcome)
  /\ UNCHANGED slices

\* list[k] = x, written by the owner of the list
ListSetItem(k, x) ==
  /\ ListInRange(list, k)
  /\ list' = ListSet(list, k, x)
  /\ last' = Call("list_setitem", "-", <<k, x>>, NoSlice, NoOutcome)
  /\ UNCHANGED slices

\* v = ZeroCopySlice(list, i, j); v stays as it was when the constructor raises
DoInit(v, i, j) ==
  LET o == ZeroCopySlice(list, i, j)
  IN  /\ slices' = IF o.err = "none" THEN [slices EXCEPT ![v] = o.slice] ELSE slices
      /\ last' = Call("init", v, <<i, j>>, NoSlice, o)
      /\ UNCHANGED list

\* v = list[i:j] on a ZeroCopyList
DoListGetSlice(v, i, j) ==
  LET o == ZeroCopyList_getslice(list, i, j)
  IN  /\ slices' = IF o.err = "none" THEN [slices EXCEPT ![v] = o.slice] ELSE slices
      /\ last' = Call("list_getslice", v, <<i, j>>, NoSlice, o)
      /\ UNCHANGED list

\* the list the slice in v refers to
ListOf(v) == BackingOf(slices[v], list)

\* a method call that keeps the bounds in one place for all slices
Apply_shared_bounds(op, v, args, o) ==
  /\ slices[v].alive
  /\ slices' = [w \in Views |-> IF slices[w].alive THEN o.slice ELSE slices[w]]
  /\ list' = o.list
  /\ last' = Call(op, v, args, slices[v], o)

\* a method of the slice in v that returns no new slice; o.list is the list
\* the slice refers to, after the call
Apply(op, v, args, o) ==
  /\ slices[v].alive
  /\ slices' = [slices EXCEPT ![v] =
                  IF slices[v].own = None THEN o.slice
                  ELSE [o.slice EXCEPT !.own = Some(o.list)]]
  /\ list' = IF slices[v].own = None THEN o.list ELSE list
  /\ last' = Call(op, v, args, slices[v], o)

DoLen(v) == Apply("len", v, <<>>, len(slices[v], ListOf(v)))

DoGetItem(v, i) == Apply("getitem", v, <<i>>, getitem(slices[v], ListOf(v), i))

DoSetItem(v, i, x) ==
  Apply("setitem", v, <<i, x>>, setitem(slices[v], ListOf(v), i, x))

DoContains(v, x) == Apply("contains", v, <<x>>, contains(slices[v], ListOf(v), x))

DoCount(v, x) == Apply("count", v, <<x>>, count(slices[v], ListOf(v), x))

DoIndex(v, x, start, stop) ==
  Apply("index", v, <<x, start, stop>>,
        index(slices[v], ListOf(v), x, start, stop))

DoRepr(v) == Apply("repr", v, <<>>, repr(slices[v], ListOf(v)))

DoStr(v) == Apply("str", v, <<>>, str(slices[v], ListOf(v)))

\* w = v[i:j]: the new slice is bound to w (w may be v itself); when the call
\* raises, w stays as it was and v keeps its re-adjusted bounds
DoGetSlice(v, w, i, j) ==
  LET o == getslice(slices[v], ListOf(v), i, j)
      t == [slices EXCEPT ![v] = o.slice]
  IN  /\ slices[v].alive
      /\ slices' = IF o.err = "none" THEN [t EXCEPT ![w] = o.ret[1]] ELSE t
      /\ last' = Call("getslice", v, <<i, j>>, slices[v], o)
      /\ UNCHANGED list

Next ==
  \/ \E x \in Vals : ListAppend(x)
  \/ ListPop
  \/ \E k \in Idx, x \in Vals : ListSetItem(k, x)
  \/ \E v \in One, i, j \in Idx : DoInit(v, i, j)
  \/ \E v \in One, i, j \in Idx : DoListGetSlice(v, i, j)
  \/ \E v \in One : DoLen(v)
  \/ \E v \in One, i \in Idx : DoGetItem(v, i)
  \/ \E v \in One, i \in Idx, x \in Vals : DoSetItem(v, i, x)
  \/ \E v \in One, x \in Vals : DoContains(v, x)
  \/ \E v \in One, x \in Vals : DoCount(v, x)
  \/ \E v \in One, x \in Vals : DoIndex(v, x, None, None)
  \/ \E v \in One : DoRepr(v)
  \/ \E v \in One : DoStr(v)
  \/ \E v, w \in One, i, j \in Idx : DoGetSlice(v, w, i, j)

\* every method, index() with its default start and stop
Spec == Init /\ [][Next]_vars

NextIndex ==
  \/ \E x \in Vals : ListAppend(x)
  \/ ListPop
  \/ \E v \in One, i, j \in Idx : DoInit(v, i, j)
  \/ \E v \in One, x \in Vals, start, stop \in OptIdx : DoIndex(v, x, start, stop)

\* index() with every start and stop, over slices of a list that grows and shrinks
SpecIndex == Init /\ [][NextIndex]_vars

NextPair ==
  \/ \E x \in Vals : ListAppend(x)
  \/ ListPop
  \/ \E v \in Views, i \in PairIdx : \E j \in i..MaxIdx : DoInit(v, i, j)
  \/ \E v \in Views : DoLen(v)
  \/ \E v \in Views, i \in PairIdx : DoGetItem(v, i)
  \/ \E v \in Views, i \in PairIdx, x \in Vals : DoSetItem(v, i, x)
  \/ \E v \in Views, x \in Vals : DoContains(v, x)
  \/ \E v \in Views, x \in Vals : DoCount(v, x)
  \/ \E v \in Views, x \in Vals : DoIndex(v, x, None, None)
  \/ \E v \in Views : DoRepr(v)
  \/ \E v \in Views : DoStr(v)
  \/ \E v \in Views, i, j \in PairIdx : DoGetSlice(v, v, i, j)

\* two slices of one list, made with 0 <= i <= j and used with non-negative
\* arguments
SpecPair == Init /\ [][NextPair]_vars

\* ---- properties -----------------------------------------------------------
\* the calls that bind a newly constructed slice to the variable
ConstructOps == {"init", "list_getslice"}

\* the last call bound, or tried to bind, a new slice
Rebinds == last.op \in ConstructOps \/ (last.op = "getslice" /\ last.err = "none")

\* the values stored bounds can take
Bnd == (0 - MaxIdx)..MaxLen

\* the absolute positions of the window [low, high)
Window(s) == {p \in Bnd : s.low <= p /\ p < s.high}

\* slice s behaves as an empty view of list l: len 0, no subscript accepted
BehavesEmpty(s, l) ==
  /\ len(s, l).ret = Some(0)
  /\ \A i \in Idx : getitem(s, l, i).err = "IndexError"
  /\ \A i \in Idx, x \in Vals : setitem(s, l, i, x).err = "IndexError"

\* C1: right after the re-adjustment of any public method, the bounds of the
\* slice satisfy 0 <= low <= high <= len(list)
C1_BoundsInvariant ==
  last.op \in ViewOps =>
    /\ 0 <= last.self.low
    /\ last.self.low <= last.self.high
    /\ last.self.high <= Len(list)

\* C2 as stated, one step of it: when a pop has left len(list) <= low of a
\* slice built with 0 <= low <= high, the slice is empty after whatever the
\* list or the slice does next, short of a construction
C2_ShrinkOriginal ==
  [][\A v \in Views :
       (/\ last.op = "pop"
        /\ slices[v].alive
        /\ 0 <= slices[v].low /\ slices[v].low <= slices[v].high
        /\ Len(list) <= slices[v].low
        /\ ~Rebinds')
       => BehavesEmpty(slices'[v], list')]_vars

\* C2 amended: while len(list) <= low the slice is empty; a method called in
\* that condition sets the bounds to (0, 0); and a slice with low = high
\* stays so, and is empty, whatever the list does afterwards
C2_ShrinkAmended ==
  [][\A v \in Views :
       /\ (slices'[v].alive /\ Len(list') <= slices'[v].low)
            => BehavesEmpty(slices'[v], list')
       /\ (last'.op \in ViewOps /\ last'.v = v /\ Len(list) <= last'.before.low)
            => (last'.self.low = 0 /\ last'.self.high = 0)
       /\ (slices[v].alive /\ slices[v].low = slices[v].high /\ ~Rebinds')
            => slices'[v].low = slices'[v].high
       /\ (slices'[v].alive /\ slices'[v].low = slices'[v].high)
            => BehavesEmpty(slices'[v], list')]_vars

\* a non-empty slice was read after the list had shrunk to its low bound
C2_Witness ==
  /\ last.op = "getitem"
  /\ 1 <= last.before.low /\ last.before.low < last.before.high
  /\ Len(list) <= last.before.low
  /\ last.err = "IndexError"
  /\ last.self.low = 0 /\ last.self.high = 0

\* C3: a successful s[k] = x with k >= 0 leaves x at list[low + k], changes
\* no other place and not the length, and every slice of the list that reads
\* that place reads x
C3_WriteThrough ==
  [][(last'.op = "setitem" /\ last'.err = "none" /\ last'.args[1] >= 0) =>
       LET k == last'.args[1]
           x == last'.args[2]
           p == last'.self.low + k
       IN  /\ ListInRange(list', p)
           /\ ListGet(list', p) = x
           /\ Len(list') = Len(list)
           /\ \A q \in 1..Len(list) :
                q # ListPos(list, p) + 1 => list'[q] = list[q]
           /\ \A lo \in Bnd, hi \in Bnd, m \in Idx :
                LET o == getitem(Slice(lo, hi), list', m)
                IN  (/\ o.err = "none"
                     /\ \E a \in o.acc : ListPos(list', a) = ListPos(list', p))
                    => o.ret = Some(x)]_vars

\* a store through a slice that starts past the head of the list
C3_Witness ==
  /\ last.op = "setitem" /\ last.err = "none"
  /\ last.args[1] >= 0
  /\ last.self.low >= 1
  /\ ListGet(list, last.self.low + last.args[1]) = last.args[2]

\* C4: no step other than a construction widens the window of a slice or
\* raises its stored high bound
C4_NeverWidens ==
  [][\A v \in Views : (slices[v].alive /\ ~Rebinds') =>
       /\ Window(slices'[v]) \subseteq Window(slices[v])
       /\ slices'[v].high <= slices[v].high]_vars

\* C5: every list subscript a method evaluates is a position 0 <= p < len(list)
C5_NoOutOfRangeAccess ==
  last.op \in ViewOps => \A p \in last.acc : 0 <= p /\ p < Len(list)

\* C6: a slice whose stored low exceeds its stored high behaves as empty:
\* len 0, no subscript accepted, contains nothing, renders as []
C6_InvertedIsEmpty ==
  \A v \in Views : (slices[v].alive /\ slices[v].low > slices[v].high) =>
    /\ BehavesEmpty(slices[v], list)
    /\ \A x \in Vals : contains(slices[v], list, x).ret = Some(FALSE)
    /\ \A x \in Vals : count(slices[v], list, x).ret = Some(0)
    /\ repr(slices[v], list).ret = Some("[]")

\* C7: after t = s[i:j] succeeds, t[k] is s[i + k] for every 0 <= k < len(t)
C7_SubviewComposition ==
  (last.op = "getslice" /\ last.err = "none") =>
    LET i == last.args[1]
        t == last.ret[1]
        n == len(t, list).ret[1]
    IN  \A k \in 0..(MaxLen + MaxIdx) : k < n =>
          LET a == getitem(t, list, k)
              b == getitem(last.self, list, i + k)
          IN  a.err = b.err /\ a.ret = b.ret

\* C8: a call on a slice, or a construction, that raises leaves the list as
\* it was
C8_NoPartialFailure ==
  [][(last'.op \in ViewOps \cup ConstructOps /\ last'.err # "none")
       => list' = list]_vars

\* a store into a non-empty window was refused
C8_Witness ==
  /\ last.op = "setitem" /\ last.err = "IndexError"
  /\ last.self.low < last.self.high
  /\ ListInRange(list, resolve(last.self, last.args[1]))

\* C9: index(x) with the default start and stop raises ValueError when no
\* element of the window equals x
C9_SearchMiss ==
  (/\ last.op = "index"
   /\ last.args[2] = None /\ last.args[3] = None
   /\ \A p \in Window(last.self) :
        ListInRange(list, p) => ListGet(list, p) # last.args[1])
  => last.err = "ValueError"

\* C10: when index(x, start, stop) returns r, list[begin + r] == x,
\* begin + r < end, and no list[p] with begin <= p < begin + r equals x
C10_SearchHit ==
  (last.op = "index" /\ last.err = "none") =>
    LET s     == last.self
        x     == last.args[1]
        start == last.args[2]
        stop  == last.args[3]
        begin == IF start = None THEN s.low
                 ELSE IF start[1] < 0 THEN s.high + start[1]
                 ELSE s.low + start[1]
        end   == IF stop = None THEN s.high
                 ELSE IF stop[1] < 0 THEN s.high + stop[1]
                 ELSE s.low + stop[1]
        r     == last.ret[1]
    IN  /\ r >= 0
        /\ ListInRange(list, begin + r)
        /\ ListGet(list, begin + r) = x
        /\ begin + r < end
        /\ \A p \in begin..(begin + r - 1) :
             ListInRange(list, p) /\ ListGet(list, p) # x

\* a search of a well-formed slice from a start past its head found x
C10_Witness ==
  /\ last.op = "index" /\ last.err = "none"
  /\ last.args[2] # None /\ last.args[2][1] > 0
  /\ 0 <= last.self.low
  /\ ListGet(list, last.self.low) # last.args[1]

\* the bounds of slice s satisfy 0 <= low <= high
WellFormed(s) == 0 <= s.low /\ s.low <= s.high

\* C11: right after View(backing, i, j) succeeds, len of the new view is
\* resolved high - resolved low
C11_LengthAtConstruction ==
  (last.op \in ConstructOps /\ last.err = "none") =>
    LET i  == last.args[1]
        j  == last.args[2]
        lo == IF i < 0 THEN Len(list) + i ELSE i
        hi == IF j < 0 THEN Len(list) + j ELSE j
    IN  len(last.self, list).ret = Some(hi - lo)

\* C12: View(backing, i, j) succeeds, with the resolved bounds stored, exactly
\* when resolved low < len(backing) or = 0 and resolved high <= len(backing);
\* otherwise it raises IndexError
C12_ConstructionAcceptance ==
  last.op \in ConstructOps =>
    LET i  == last.args[1]
        j  == last.args[2]
        lo == IF i < 0 THEN Len(list) + i ELSE i
        hi == IF j < 0 THEN Len(list) + j ELSE j
        ok == (lo < Len(list) \/ lo = 0) /\ hi <= Len(list)
    IN  /\ ok => (/\ last.err = "none"
                  /\ last.self.alive
                  /\ last.self.low = lo /\ last.self.high = hi)
        /\ ~ok => (last.err = "IndexError" /\ ~last.self.alive)

\* View([], 0, 0) was built and has length 0
C12_Witness ==
  /\ last.op = "init" /\ last.err = "none"
  /\ list = <<>>
  /\ last.args = <<0, 0>>
  /\ len(slices[last.v], list).ret = Some(0)

\* C13: for a slice with 0 <= low <= high, s[i] is list[low + i] for
\* 0 <= i < len(s) and list[high + i] for -len(s) <= i < 0, with the bounds
\* after re-adjustment, and s[i], s[i] = x raise IndexError for every other i
C13_IndexResolution ==
  (last.op \in {"getitem", "setitem"} /\ WellFormed(last.before)) =>
    LET s == last.self
        n == s.high - s.low
        i == last.args[1]
    IN  /\ (0 <= i /\ i < n) =>
              /\ last.err = "none"
              /\ last.op = "getitem" => last.ret = Some(list[s.low + i + 1])
        /\ (0 - n <= i /\ i < 0) =>
              /\ last.err = "none"
              /\ last.op = "getitem" =>
                   /\ last.ret = Some(list[s.high + i + 1])
                   /\ last.ret = getitem(s, list, n + i).ret
        /\ ~(0 - n <= i /\ i < n) => last.err = "IndexError"

\* s[-1] of a slice of two elements was read
C13_Witness ==
  /\ last.op = "getitem" /\ last.err = "none"
  /\ WellFormed(last.before)
  /\ last.args[1] = 0 - 1
  /\ last.self.high - last.self.low = 2
  /\ last.ret = Some(list[last.self.high])

\* C14: z[i:j] of a ZeroCopyList z returns a slice of z itself: a store
\* s[k] = x through a slice with low >= 0 leaves x at z[low + k], and a later
\* z[p] = x at a position of the window of a slice is read by s[p - low]
C14_ZeroCopy ==
  [][/\ (last'.op = "list_getslice" /\ last'.err = "none")
          => slices'[last'.v].own = None
     /\ (/\ last'.op = "setitem" /\ last'.err = "none"
         /\ last'.args[1] >= 0 /\ last'.self.low >= 0)
          => list'[last'.self.low + last'.args[1] + 1] = last'.args[2]
     /\ \A v \in Views :
          (last'.op = "list_setitem" /\ slices'[v].alive) =>
            LET s == readjust_bounds(slices'[v], list')
                p == ListPos(list, last'.args[1])
            IN  (0 <= s.low /\ s.low <= p /\ p < s.high) =>
                  getitem(slices'[v], BackingOf(slices'[v], list'), p - s.low).ret
                    = Some(last'.args[2])]_vars

\* the owner of the list changed an element inside the window of a slice that
\* starts past the head of the list, and the slice reads the new element
C14_Witness ==
  /\ last.op = "list_setitem"
  /\ \E v \in Views :
       LET s == readjust_bounds(slices[v], list)
           p == ListPos(list, last.args[1])
       IN  /\ slices[v].alive
           /\ 1 <= s.low /\ s.low <= p /\ p < s.high
           /\ getitem(slices[v], list, p - s.low).ret = Some(last.args[2])

\* C15: after re-adjustment s[i:j] succeeds exactly when the resolved begin and
\* end satisfy low <= begin < high and low <= end <= high, raises IndexError
\* otherwise, and on success the new slice stores exactly (begin, end) over
\* the same list
C15_SubviewResult ==
  last.op = "getslice" =>
    LET s     == last.self
        begin == resolve(s, last.args[1])
        end   == resolve(s, last.args[2])
        ok    == /\ s.low <= begin /\ begin < s.high
                 /\ s.low <= end /\ end <= s.high
    IN  /\ ok => /\ last.err = "none"
                 /\ last.ret[1].low = begin /\ last.ret[1].high = end
                 /\ last.ret[1].own = s.own
        /\ ~ok => last.err = "IndexError"

\* C16: for a slice with 0 <= low <= high and every x, count(x) is the number
\* of positions p with low <= p < high (bounds after re-adjustment) where
\* list[p] = x, and x in s is true exactly when count(x) >= 1
C16_CountContains ==
  (last.op \in {"count", "contains"} /\ WellFormed(last.before)) =>
    LET s == last.self
        x == last.args[1]
        n == Cardinality({p \in s.low..(s.high - 1) : list[p + 1] = x})
    IN  /\ last.err = "none"
        /\ last.op = "count" =>
             /\ last.ret = Some(n)
             /\ contains(s, list, x).ret = Some(last.ret[1] >= 1)
        /\ last.op = "contains" =>
             /\ last.ret = Some(n >= 1)
             /\ last.ret = Some(count(s, list, x).ret[1] >= 1)

\* a count over a window of two elements of which exactly one equals x
C16_Witness ==
  /\ last.op = "count" /\ WellFormed(last.before)
  /\ last.self.high - last.self.low = 2
  /\ last.ret = Some(1)

\* C17: a slice whose stored bounds satisfy 0 <= low <= high keeps such
\* bounds on every step that does not bind a new slice, and its stored length
\* never grows; after each of its methods the bounds satisfy
\* 0 <= low <= high <= len(list); len returns the stored length, never
\* negative; a sub-slice made with begin <= end is again well-formed
C17_WellFormedStays ==
  [][\A v \in Views : (slices[v].alive /\ WellFormed(slices[v])) =>
       /\ ~Rebinds' =>
            /\ WellFormed(slices'[v])
            /\ slices'[v].high - slices'[v].low <= slices[v].high - slices[v].low
       /\ (last'.op \in ViewOps /\ last'.v = v) =>
            /\ WellFormed(last'.self)
            /\ last'.self.high <= Len(list')
       /\ (last'.op = "len" /\ last'.v = v) =>
            /\ last'.ret = Some(slices'[v].high - slices'[v].low)
            /\ last'.ret[1] >= 0
            /\ last'.ret[1] <= slices[v].high - slices[v].low
       /\ (/\ last'.op = "getslice" /\ last'.v = v /\ last'.err = "none"
           /\ last'.ret[1].low <= last'.ret[1].high) =>
            WellFormed(last'.ret[1])]_vars

\* len of a well-formed slice returned less than the stored length, because
\* the list had lost elements of the window
C17_Witness ==
  /\ last.op = "len" /\ WellFormed(last.before)
  /\ last.before.low = 1
  /\ last.ret = Some(0)
  /\ last.before.high - last.before.low > 0

\* the calls made on the list itself
ListOps == {"append", "pop", "list_setitem"}

\* a list of n elements, as appends leave it
Regrown(n) == [k \in 1..n |-> 0]

\* C18: the stored bounds of a slice change only inside a method of that
\* slice; when a list at least as long as the stored high bound is cut to
\* fewer elements and then grows again to at least the stored high bound,
\* with no method of the slice called in between, the slice has the length
\* it had before; a method called while the
\* list is short stores the narrowed bounds, and they stay through a regrowth
C18_NarrowOnAccess ==
  [][\A v \in Views :
       /\ last'.op \in ListOps => slices'[v] = slices[v]
       /\ (slices'[v] # slices[v]) =>
            (last'.v = v /\ last'.op \in ViewOps \cup ConstructOps)
       /\ slices'[v].alive =>
            \A short, regrown \in 0..MaxLen :
              (/\ Len(list') >= slices'[v].high
               /\ short < Len(list') /\ short < regrown
               /\ regrown >= slices'[v].high) =>
                len(slices'[v], Regrown(regrown)).ret = len(slices'[v], list').ret
       /\ (last'.op \in ViewOps /\ last'.v = v /\ ~Rebinds') =>
            /\ slices'[v].high <= Len(list')
            /\ slices'[v] = last'.self]_vars

\* C19: len, item reads, contains, count, index, repr, str, sub-slicing and
\* construction leave the list as it was; no method or construction of one
\* slice changes the stored bounds of another; a successful s[i] = x writes
\* exactly one position of the list and keeps its length
C19_Frame ==
  [][/\ last'.op \in (ViewOps \ {"setitem"}) \cup ConstructOps => list' = list
     /\ last'.op \in ViewOps \cup ConstructOps =>
          \A u \in Views \ {last'.v} : slices'[u] = slices[u]
     /\ (last'.op = "setitem" /\ last'.err = "none") =>
          /\ Len(list') = Len(list)
          /\ Cardinality(last'.acc) = 1
          /\ \A idx \in last'.acc :
               /\ ListGet(list', idx) = last'.args[2]
               /\ \A p \in 1..Len(list) :
                    p # ListPos(list, idx) + 1 => list'[p] = list[p]]_vars

\* a store through one slice while another slice of the same list, with other
\* bounds, has the written position in its window
C19_Witness ==
  /\ last.op = "setitem" /\ last.err = "none"
  /\ \E u \in Views \ {last.v} :
       /\ slices[u].alive /\ slices[last.v].alive
       /\ slices[u].low # slices[last.v].low
       /\ \E idx \in last.acc :
            /\ slices[u].low <= idx /\ idx < slices[u].high
            /\ getitem(slices[u], list, idx - slices[u].low).ret = Some(last.args[2])

====
